---- MODULE Spec2Model ----
(***************************************************************************)
(* Model of the browser-auto-proxy background service worker               *)
(* (src/unnamed/part_000, the multi-mirror variant of src/src/background.js)*)
(* and of the popup writes of src/src/App.jsx.                             *)
(*                                                                         *)
(* Execution model.  The service worker is single threaded: a handler runs *)
(* from the event that resumes it to its next `await`.  One action of the  *)
(* model is one such run.  A chrome.storage call takes effect when it is   *)
(* issued (the browser serves the calls of one worker in issue order); the *)
(* continuation after its `await` is a later action.                       *)
(*                                                                         *)
(* Strings that the code inspects character by character (host names,      *)
(* domains, the credential string) are sequences of one-character strings. *)
(***************************************************************************)
EXTENDS Integers, Sequences, FiniteSets, TLC

(***************************************************************************)
(* Bounds of the model.                                                    *)
(***************************************************************************)
\* Number of checkAndUpdateGeosite invocations that may be in flight at once.
MaxCycles == 2
\* Date.now() is a logical clock that saturates at this value.
MaxClock == 2

(***************************************************************************)
(* Program constants.                                                      *)
(***************************************************************************)
\* GEOSITE_URLS.length
NumMirrors == 3
\* parseAndSaveDomains: buffer.byteLength < 1024 is rejected
MinBufferSize == 1024
\* checkAndUpdateGeosite: totalBytes when no Content-Length header is sent
FallbackTotalBytes == 60000000
\* bytes per MiB, for downloadedMb / totalMb
BytesPerMb == 1048576

Cycles == 1..MaxCycles
Mirrors == 1..NumMirrors

(***************************************************************************)
(* Domains and remote file contents.                                       *)
(***************************************************************************)
DomAB == <<"a", ".", "b">>
DomB == <<"b">>
DomCB == <<"c", ".", "b">>

\* A value of a string-typed storage key that was never written.
UndefinedStr == <<"undefined">>
NoEtag == ""

\* Contents a mirror may serve with status 200.  "v1" and "v2" are two
\* releases of geosite.dat, "short" is a body below the minimum size,
\* "junk" is a body of plausible size that is not a geosite file (an error
\* page served with status 200).  "bundle" is the packaged geosite.dat.
RemoteContents == {"v1", "v2", "short", "junk"}
GoodContents == {"v1", "v2", "bundle"}

\* byteLength of a body.
SizeOf(content) ==
    CASE content = "short" -> 512
      [] OTHER -> 1024

\* Sizes of the chunks reader.read() may deliver.
ChunkSizes == {512, 1024}

\* The domains of the target categories in a release, in file order
\* (a domain may be listed in two categories).
DomainsIn(content) ==
    CASE content = "v1" -> <<DomAB, DomB, DomAB>>
      [] content = "v2" -> <<DomB, DomCB>>
      [] content = "bundle" -> <<DomAB>>
      [] OTHER -> <<>>

\* parseGeoSite(bytes, TARGET_CATEGORIES) of ./geosite-parser.js.  A
\* well-formed file with no entry of the target categories ("foreign")
\* decodes to no domain.  A
\* malformed buffer either fails the whole decode or is skipped record by
\* record, by a policy fixed in the parser (policy is "abort" or "skip").
parseGeoSite(content, policy) ==
    IF content \in GoodContents \cup {"foreign"}
    THEN [threw |-> FALSE, sites |-> DomainsIn(content)]
    ELSE IF policy = "abort"
         THEN [threw |-> TRUE, sites |-> <<>>]
         ELSE [threw |-> FALSE, sites |-> <<>>]

\* [...new Set(parsedSites)]: first occurrences, in order.
RECURSIVE Dedupe(_)
Dedupe(s) ==
    IF s = <<>> THEN <<>>
    ELSE LET front == Dedupe(SubSeq(s, 1, Len(s) - 1))
             last == s[Len(s)]
         IN IF \E i \in 1..Len(front) : front[i] = last
            THEN front
            ELSE Append(front, last)

(***************************************************************************)
(* State.                                                                  *)
(***************************************************************************)
VARIABLES
    local,         \* chrome.storage.local
    alarm,         \* TRUE when the alarm 'geosite-update' exists
    now,           \* the logical clock read by Date.now()
    parserPolicy,  \* what parseGeoSite does with a malformed buffer
    defaultConfig, \* DEFAULT_PROXY_CONFIG, fixed at build time
    cycle,         \* the invocations of checkAndUpdateGeosite
    install,       \* the onInstalled handler
    remote,        \* what the mirrors serve
    sync,          \* chrome.storage.sync
    proxy,         \* chrome.proxy.settings, scope 'regular'
    cachedConfig,  \* the cached credential of the service worker
    events,        \* storage.onChanged events not yet delivered to the worker
    listening,     \* TRUE when the behaviour includes the onChanged listener
    run,           \* the invocations of updateProxy
    refresh,       \* the invocation of refreshCachedConfig
    popup,         \* the React state of the popup (App.jsx)
    host,          \* the host of the request the policy is asked about
    route,         \* the answer of FindProxyForURL for that host
    auth           \* the last authentication challenge and the reply to it

pipelineVars == <<local, alarm, now, parserPolicy, defaultConfig, cycle, install, remote>>

policyVars ==
    <<sync, proxy, cachedConfig, events, listening, run, refresh, popup, host, route, auth>>

vars == <<pipelineVars, policyVars>>

NoProgress == [status |-> "unset", percent |-> 0, downloadedMb |-> 0, totalMb |-> 0]
NullProgress == [NoProgress EXCEPT !.status = "null"]
ErrorProgress == [NoProgress EXCEPT !.status = "error"]

\* The keys of chrome.storage.local that differ between old and new: the
\* `changes` of the onChanged event of a set or remove call.  (geoSites is
\* written together with geoReady, and is new when geoReady is.)
ChangedKeys(old, new) ==
    {k \in {"geositeEtag", "geositeLastUpdate", "downloadProgress",
            "isEnabled", "proxyConfig", "geoReady"} : old[k] # new[k]}
    \cup (IF old.geoSites # new.geoSites \/ old.geoReady # new.geoReady
          THEN {"geoSites"} ELSE {})

\* chrome.storage fires onChanged for a call that changed a value: the
\* event is queued for the listener of the service worker.
NotifyLocal(old, new) ==
    events' = IF listening /\ ChangedKeys(old, new) # {}
              THEN Append(events, [area |-> "local",
                                   keys |-> ChangedKeys(old, new),
                                   proxyConfig |-> new.proxyConfig])
              ELSE events

\* A step of the pipeline leaves the policy compiler alone, but for the
\* onChanged event of a storage write.
PipelineFrame ==
    /\ UNCHANGED <<sync, proxy, cachedConfig, listening, run, refresh, popup, host, route, auth>>
    /\ NotifyLocal(local, local')

\* chrome.storage.local of a fresh profile.  geoSites is meaningful only
\* when geoReady is TRUE (both are written by the same set call), and
\* geositeLastUpdate = 0 stands for a key that was never written.
EmptyLocal ==
    [geoSites |-> <<>>, geoReady |-> FALSE, geositeEtag |-> NoEtag,
     geositeLastUpdate |-> 0, downloadProgress |-> NoProgress,
     isEnabled |-> "undefined", proxyConfig |-> UndefinedStr]

NoResponse == [status |-> 0, content |-> "none", etag |-> NoEtag, length |-> -1]

\* An invocation slot.  wrote is the set of storage keys the invocation has
\* set so far; outcome is how it ended.
IdleCycle ==
    [pc |-> "idle", ifNoneMatch |-> NoEtag, mirror |-> 0, timer |-> FALSE,
     response |-> NoResponse, totalBytes |-> 0, receivedBytes |-> 0,
     wrote |-> {}, outcome |-> "none"]

IdleInstall == [pc |-> "idle", reason |-> "none", configRead |-> UndefinedStr,
                configPending |-> FALSE]

(***************************************************************************)
(* Helpers of checkAndUpdateGeosite.                                       *)
(***************************************************************************)
\* Date.now(): each reading is later than the one before, up to MaxClock.
Tick(t) == IF t < MaxClock THEN t + 1 ELSE MaxClock

\* The value of parseInt for a string that starts with no number, and of
\* any arithmetic on it (also of 0 / 0).
NaN == -1

\* A Content-Length header whose value is not a number.
NonNumeric == -2

\* Math.round((receivedBytes / totalBytes) * 100), then the clamp to 100.
\* Math.round rounds halves up; a division of a positive number by zero is
\* Infinity, which the clamp turns into 100.
Percent(receivedBytes, totalBytes) ==
    IF totalBytes = NaN THEN NaN
    ELSE IF totalBytes = 0
    THEN IF receivedBytes = 0 THEN NaN ELSE 100
    ELSE LET p == (200 * receivedBytes + totalBytes) \div (2 * totalBytes)
         IN IF p > 100 THEN 100 ELSE p

\* (bytes / 1024 / 1024).toFixed(1), as a number of tenths of a MiB.
ToFixed1(bytes) ==
    IF bytes = NaN THEN NaN ELSE (20 * bytes + BytesPerMb) \div (2 * BytesPerMb)

\* What the mirrors do in a behaviour: the contents they serve with status
\* 200, whether they may leave out the ETag and Content-Length headers, and
\* whether they may declare a Content-Length that is not the size of the
\* body.
AnyRemote == [contents |-> RemoteContents, bare |-> TRUE, odd |-> FALSE]
IntactRemote == [contents |-> {"v1", "v2"}, bare |-> FALSE, odd |-> FALSE]
OneFileRemote == [contents |-> {"v1"}, bare |-> FALSE, odd |-> FALSE]
OddRemote == [contents |-> {"v1", "short"}, bare |-> TRUE, odd |-> TRUE]
ForeignRemote == [contents |-> {"v1", "foreign"}, bare |-> FALSE, odd |-> FALSE]

\* Declared lengths that are not the size of the body: zero, less than the
\* body, more than the body, no number.
OddLengths == {0, 512, 2048, NonNumeric}

\* The ETag header sent with a content: the validator of that content, or
\* none; an error page carries none.
EtagsOf(content, bare) ==
    IF content = "junk" THEN {NoEtag}
    ELSE IF bare THEN {NoEtag, content} ELSE {content}

\* The Content-Length header: the size of the body, or none (-1).
LengthsOf(content, bare) ==
    IF bare THEN {-1, SizeOf(content)} ELSE {SizeOf(content)}

\* The responses a mirror may give to a request carrying If-None-Match
\* ifNoneMatch.
Responses(ifNoneMatch) ==
    UNION {{[status |-> 200, content |-> k, etag |-> e, length |-> n] :
                e \in EtagsOf(k, remote.bare),
                n \in LengthsOf(k, remote.bare)
                         \cup (IF remote.odd THEN OddLengths ELSE {})} :
           k \in remote.contents}
    \cup {[NoResponse EXCEPT !.status = 404]}
    \cup (IF ifNoneMatch # NoEtag
          THEN {[NoResponse EXCEPT !.status = 304, !.etag = ifNoneMatch]}
          ELSE {})

\* An invocation that returned: its locals are gone, how it ended is kept.
Ended(outcome) == [IdleCycle EXCEPT !.pc = "done", !.outcome = outcome]

\* A step of one invocation works on st = [local, cyc, now]: the storage,
\* the invocation's own record and the clock.

\* chrome.storage.local.set({downloadProgress: {status: 'error'}}) of the
\* two failure branches (all mirrors failed, or an exception was caught).
FailCycle(st) ==
    [st EXCEPT !.local.downloadProgress = ErrorProgress,
               !.cyc.wrote = @ \cup {"downloadProgress"},
               !.cyc.pc = "awaitError"]

\* A 304 branch that also clears the progress record before it returns.
NotModifiedClearingProgress(st) ==
    [st EXCEPT !.local.downloadProgress = NullProgress,
               !.cyc = Ended("NOT_MODIFIED")]

\* response.status === 304: return, nothing is written.
NotModified(st) == [st EXCEPT !.cyc = Ended("NOT_MODIFIED")]

\* The timestamp of the update: set({geositeLastUpdate: Date.now()}).
SaveLastUpdate(st) ==
    [st EXCEPT !.now = Tick(st.now),
               !.local.geositeLastUpdate = Tick(st.now),
               !.cyc.wrote = @ \cup {"geositeLastUpdate"},
               !.cyc.pc = "awaitStamp"]

\* What follows `await parseAndSaveDomains(...)`: the ETag of the response
\* is stored when the response has one, then the timestamp.
SaveEtag(st) ==
    IF st.cyc.response.etag # NoEtag
    THEN [st EXCEPT !.local.geositeEtag = st.cyc.response.etag,
                    !.cyc.wrote = @ \cup {"geositeEtag"},
                    !.cyc.pc = "awaitEtag"]
    ELSE SaveLastUpdate(st)

\* parseAndSaveDomains(buffer) up to its await: the result is
\* [saved, threw, local].  A buffer below MinBufferSize returns [] without
\* a write and without an exception.
parseAndSaveDomains(loc, content, byteLength, policy) ==
    IF byteLength < MinBufferSize
    THEN [saved |-> FALSE, threw |-> FALSE, local |-> loc]
    ELSE LET parsed == parseGeoSite(content, policy)
         IN IF parsed.threw
            THEN [saved |-> FALSE, threw |-> TRUE, local |-> loc]
            ELSE [saved |-> TRUE, threw |-> FALSE,
                  local |-> [loc EXCEPT !.geoSites = Dedupe(parsed.sites),
                                        !.geoReady = TRUE]]

\* The stream ended: the chunks are joined and handed to
\* parseAndSaveDomains.
FinishDownload(st, policy) ==
    LET r == parseAndSaveDomains(st.local, st.cyc.response.content,
                                 st.cyc.receivedBytes, policy)
    IN IF r.threw THEN FailCycle(st)
       ELSE IF r.saved
            THEN [st EXCEPT !.local = r.local,
                            !.cyc.wrote = @ \cup {"geoSites"},
                            !.cyc.pc = "awaitSave"]
            ELSE SaveEtag(st)

\* One more chunk: the progress record is written after each chunk.
StoreProgress(st, n) ==
    LET got == st.cyc.receivedBytes + n
    IN [st EXCEPT !.cyc.receivedBytes = got,
                  !.local.downloadProgress =
                      [status |-> "downloading",
                       percent |-> Percent(got, st.cyc.totalBytes),
                       downloadedMb |-> ToFixed1(got),
                       totalMb |-> ToFixed1(st.cyc.totalBytes)],
                  !.cyc.wrote = @ \cup {"downloadProgress"},
                  !.cyc.pc = "awaitProgress"]

\* The mirror loop goes on after a failed attempt: the next URL with a new
\* AbortController and timer, or, after the last URL, the failure branch.
NextMirror(st) ==
    IF st.cyc.mirror < NumMirrors
    THEN [st EXCEPT !.cyc.mirror = @ + 1, !.cyc.timer = TRUE,
                    !.cyc.pc = "awaitFetch"]
    ELSE FailCycle(st)

\* fetch() resolved with response r.
HandleResponse(st, r) ==
    LET s == [st EXCEPT !.cyc.timer = FALSE, !.cyc.response = r]
    IN IF r.status = 304 THEN NotModified(s)
       ELSE IF r.status = 200
            THEN [s EXCEPT !.cyc.ifNoneMatch = NoEtag,
                           !.cyc.totalBytes =
                               IF r.length = -1 THEN FallbackTotalBytes
                               ELSE IF r.length = NonNumeric THEN NaN
                               ELSE r.length,
                           !.cyc.pc = "awaitRead"]
            ELSE NextMirror(s)

\* checkAndUpdateGeosite() is called: it runs to its first await, the read
\* of geositeEtag.
StartCycle(loc) ==
    [IdleCycle EXCEPT !.pc = "awaitGet", !.ifNoneMatch = loc.geositeEtag]

\* The lowest slot with no invocation in flight.
FreeSlot(c) ==
    /\ cycle[c].pc \in {"idle", "done"}
    /\ \A d \in Cycles : d < c => cycle[d].pc \notin {"idle", "done"}

View(c) == [local |-> local, cyc |-> cycle[c], now |-> now]

Apply(c, st) ==
    /\ local' = st.local
    /\ now' = st.now
    /\ cycle' = [cycle EXCEPT ![c] = st.cyc]
    /\ UNCHANGED <<alarm, parserPolicy, defaultConfig, install, remote>>
    /\ PipelineFrame

(***************************************************************************)
(* Actions of checkAndUpdateGeosite.                                       *)
(***************************************************************************)
\* chrome.alarms.onAlarm: the periodic alarm starts an invocation.
AlarmFire(c) ==
    /\ alarm
    /\ FreeSlot(c)
    /\ cycle' = [cycle EXCEPT ![c] = StartCycle(local)]
    /\ UNCHANGED <<local, alarm, now, parserPolicy, defaultConfig, install, remote>>
    /\ PipelineFrame

\* The stored ETag arrived: the first mirror is requested.
GotEtag(c) ==
    /\ cycle[c].pc = "awaitGet"
    /\ Apply(c, [View(c) EXCEPT !.cyc.mirror = 1, !.cyc.timer = TRUE,
                                !.cyc.pc = "awaitFetch"])

FetchResolved(c) ==
    /\ cycle[c].pc = "awaitFetch"
    /\ \E r \in Responses(cycle[c].ifNoneMatch) :
           Apply(c, HandleResponse(View(c), r))

\* fetch() rejected with a network error.
FetchRejected(c) ==
    /\ cycle[c].pc = "awaitFetch"
    /\ Apply(c, NextMirror(View(c)))

\* The 120 s timer fired while fetch() was pending: controller.abort()
\* rejects the fetch.
FetchTimeout(c) ==
    /\ cycle[c].pc = "awaitFetch"
    /\ cycle[c].timer
    /\ Apply(c, NextMirror([View(c) EXCEPT !.cyc.timer = FALSE]))

ReadChunk(c) ==
    /\ cycle[c].pc = "awaitRead"
    /\ \E n \in ChunkSizes :
        /\ cycle[c].receivedBytes + n <= SizeOf(cycle[c].response.content)
        /\ Apply(c, StoreProgress(View(c), n))

ProgressSaved(c) ==
    /\ cycle[c].pc = "awaitProgress"
    /\ Apply(c, [View(c) EXCEPT !.cyc.pc = "awaitRead"])

\* reader.read() answered done.
ReadDone(c) ==
    /\ cycle[c].pc = "awaitRead"
    /\ cycle[c].receivedBytes = SizeOf(cycle[c].response.content)
    /\ Apply(c, FinishDownload(View(c), parserPolicy))

\* reader.read() rejected: the connection broke while the body streamed.
ReadFailed(c) ==
    /\ cycle[c].pc = "awaitRead"
    /\ Apply(c, FailCycle(View(c)))

DomainsSaved(c) ==
    /\ cycle[c].pc = "awaitSave"
    /\ Apply(c, SaveEtag(View(c)))

EtagSaved(c) ==
    /\ cycle[c].pc = "awaitEtag"
    /\ Apply(c, SaveLastUpdate(View(c)))

\* set({downloadProgress: null}) after the timestamp.
StampSaved(c) ==
    /\ cycle[c].pc = "awaitStamp"
    /\ Apply(c, [View(c) EXCEPT !.local.downloadProgress = NullProgress,
                                !.cyc.wrote = @ \cup {"downloadProgress"},
                                !.cyc.pc = "awaitClear"])

ProgressCleared(c) ==
    /\ cycle[c].pc = "awaitClear"
    /\ Apply(c, [View(c) EXCEPT !.cyc = Ended("UPDATED")])

ErrorSaved(c) ==
    /\ cycle[c].pc = "awaitError"
    /\ Apply(c, [View(c) EXCEPT !.cyc = Ended("FAILED")])

(***************************************************************************)
(* The onInstalled handler.                                                *)
(***************************************************************************)
\* What the packaged geosite.dat may be.
BundleContents == {"bundle", "short", "junk"}

\* A handler that ends when loadBundledGeosite() has returned.
EndsAfterBundle(loc) ==
    /\ local' = [loc EXCEPT !.isEnabled = "false"]
    /\ install' = [install EXCEPT !.pc = "done"]

\* After loadBundledGeosite() returned: set({isEnabled: false}) is issued
\* (not awaited), then ensureUpdateAlarm() awaits chrome.alarms.get.
AfterBundle(loc) ==
    /\ local' = [loc EXCEPT !.isEnabled = "false"]
    /\ install' = [install EXCEPT !.pc = "awaitAlarmGet"]

\* chrome.runtime.onInstalled fires in a freshly started worker: nothing of
\* an earlier worker is still running.  With reason "update" the stored
\* proxyConfig is read for the callback, then the packaged file is fetched.
Installed ==
    /\ install.pc \in {"idle", "done"}
    /\ \E reason \in (IF install.pc = "idle" THEN {"install"}
                      ELSE {"update", "chrome_update"}) :
           install' = [pc |-> "awaitBundleFetch", reason |-> reason,
                       configRead |-> IF reason = "update"
                                      THEN local.proxyConfig
                                      ELSE UndefinedStr,
                       configPending |-> reason = "update"]
    /\ cycle' = [c \in Cycles |-> IdleCycle]
    /\ UNCHANGED <<local, alarm, now, parserPolicy, defaultConfig, remote>>
    /\ PipelineFrame

\* The callback of storage.local.get(['proxyConfig']): a stored value equal
\* to the default is removed.
ConfigRead ==
    /\ install.configPending
    /\ install' = [install EXCEPT !.configPending = FALSE]
    /\ local' = IF install.configRead = defaultConfig
                THEN [local EXCEPT !.proxyConfig = UndefinedStr]
                ELSE local
    /\ UNCHANGED <<alarm, now, parserPolicy, defaultConfig, cycle, remote>>
    /\ PipelineFrame

\* fetch(chrome.runtime.getURL('geosite.dat')) settled: with response.ok
\* the body is read, otherwise (no such file, or a rejection) the load ends.
BundleFetched ==
    /\ install.pc = "awaitBundleFetch"
    /\ \/ /\ install' = [install EXCEPT !.pc = "awaitArrayBuffer"]
          /\ UNCHANGED local
       \/ AfterBundle(local)
    /\ UNCHANGED <<alarm, now, parserPolicy, defaultConfig, cycle, remote>>
    /\ PipelineFrame

\* response.arrayBuffer() settled: parseAndSaveDomains(buffer) runs to its
\* storage write; a rejection, an exception of the parser or an undersized
\* buffer end the load without a write.
BundleBuffered ==
    /\ install.pc = "awaitArrayBuffer"
    /\ \/ \E k \in BundleContents :
            LET r == parseAndSaveDomains(local, k, SizeOf(k), parserPolicy)
            IN IF r.saved
               THEN /\ local' = r.local
                    /\ install' = [install EXCEPT !.pc = "awaitBundleSave"]
               ELSE AfterBundle(local)
       \/ AfterBundle(local)
    /\ UNCHANGED <<alarm, now, parserPolicy, defaultConfig, cycle, remote>>
    /\ PipelineFrame

BundleSaved ==
    /\ install.pc = "awaitBundleSave"
    /\ AfterBundle(local)
    /\ UNCHANGED <<alarm, now, parserPolicy, defaultConfig, cycle, remote>>
    /\ PipelineFrame

\* chrome.alarms.get answered: the alarm is created when there is none,
\* then checkAndUpdateGeosite() is called (not awaited).
AlarmChecked(c) ==
    /\ install.pc = "awaitAlarmGet"
    /\ FreeSlot(c)
    /\ alarm' = TRUE
    /\ cycle' = [cycle EXCEPT ![c] = StartCycle(local)]
    /\ install' = [install EXCEPT !.pc = "done"]
    /\ UNCHANGED <<local, now, parserPolicy, defaultConfig, remote>>
    /\ PipelineFrame

(***************************************************************************)
(* The policy compiler: parseProxyConfig, updateProxy, the PAC script.     *)
(***************************************************************************)
\* Number of updateProxy invocations that may be in flight at once.
MaxRuns == 2
\* Number of onChanged events that may wait for the listener.
MaxEvents == 1
\* Longest host name asked about.
MaxHostLen == 5

Runs == 1..MaxRuns

Letters ==
    {"a", "b", "c", "d", "e", "f", "g", "h", "i", "j", "k", "l", "m",
     "n", "o", "p", "q", "r", "s", "t", "u", "v", "w", "x", "y", "z",
     "A", "B", "C", "D", "E", "F", "G", "H", "I", "J", "K", "L", "M",
     "N", "O", "P", "Q", "R", "S", "T", "U", "V", "W", "X", "Y", "Z"}
Digits == {"0", "1", "2", "3", "4", "5", "6", "7", "8", "9"}

\* !configString: undefined and '' are falsy.
Falsy(str) == str = UndefinedStr \/ str = <<>>

\* a || b for strings.
OrElse(a, b) == IF Falsy(a) THEN b ELSE a

\* configString.split(':')
RECURSIVE Split(_)
Split(str) ==
    IF \A i \in 1..Len(str) : str[i] # ":"
    THEN <<str>>
    ELSE LET i == CHOOSE j \in 1..Len(str) :
                      str[j] = ":" /\ \A k \in 1..(j - 1) : str[k] # ":"
         IN <<SubSeq(str, 1, i - 1)>> \o Split(SubSeq(str, i + 1, Len(str)))

\* The result null of parseProxyConfig.
NullConfig ==
    [null |-> TRUE, host |-> <<>>, port |-> <<>>, user |-> <<>>, pass |-> <<>>]

\* A parse that takes the port from the last part.
parseProxyConfigLastPort(configString) ==
    IF Falsy(configString) THEN NullConfig
    ELSE LET parts == Split(configString)
         IN IF Len(parts) < 2 THEN NullConfig
            ELSE [null |-> FALSE, host |-> parts[1], port |-> parts[Len(parts)],
                  user |-> IF Len(parts) >= 3 THEN parts[3] ELSE <<>>,
                  pass |-> IF Len(parts) >= 4 THEN parts[4] ELSE <<>>]

parseProxyConfig(configString) ==
    IF Falsy(configString) THEN NullConfig
    ELSE LET parts == Split(configString)
         IN IF Len(parts) < 2 THEN NullConfig
            ELSE [null |-> FALSE, host |-> parts[1], port |-> parts[2],
                  user |-> IF Len(parts) >= 3 THEN parts[3] ELSE <<>>,
                  pass |-> IF Len(parts) >= 4 THEN parts[4] ELSE <<>>]

\* A replace that removes nothing.
KeepAll(str, class) == str

\* str.replace(/[^...]/g, ''): the characters of the class are kept.
RECURSIVE Keep(_, _)
Keep(str, class) ==
    IF str = <<>> THEN <<>>
    ELSE (IF Head(str) \in class THEN <<Head(str)>> ELSE <<>>)
             \o Keep(Tail(str), class)

\* chrome.proxy.settings after clear(): the extension sets no policy.
Cleared == [mode |-> "cleared", sites |-> <<>>, host |-> <<>>, port |-> <<>>]

\* A guard that clears only for a disabled switch or an unusable credential.
ShouldClearUnlessEmpty(isEnabled, allSites, config) ==
    \/ isEnabled # "true"
    \/ config.null

\* The guard of updateProxy under which the settings are cleared.
ShouldClear(isEnabled, allSites, config) ==
    \/ isEnabled # "true"
    \/ Len(allSites) = 0
    \/ config.null

\* The settings updateProxy installs for what it read: the PAC script is
\* its text with the list of sites and the sanitized host and port.
CompilePolicy(isEnabled, geoSites, proxyConfig, sites, default) ==
    LET config == parseProxyConfig(OrElse(proxyConfig, default))
        allSites == geoSites \o sites
    IN IF ShouldClear(isEnabled, allSites, config)
       THEN Cleared
       ELSE [mode |-> "pac_script", sites |-> allSites,
             host |-> Keep(config.host, Letters \cup Digits \cup {".", "-"}),
             port |-> Keep(config.port, Digits)]

\* dnsDomainIs(host, domain) of the PAC library of the browser:
\* host.length >= domain.length &&
\* host.substring(host.length - domain.length) == domain
dnsDomainIs(h, domain) ==
    /\ Len(h) >= Len(domain)
    /\ SubSeq(h, Len(h) - Len(domain) + 1, Len(h)) = domain

\* String.prototype.endsWith
endsWith(str, suffix) ==
    /\ Len(suffix) <= Len(str)
    /\ \A i \in 1..Len(suffix) : str[Len(str) - Len(suffix) + i] = suffix[i]

Direct == [kind |-> "DIRECT", host |-> <<>>, port |-> <<>>]
NoRoute == [kind |-> "none", host |-> <<>>, port |-> <<>>]

\* FindProxyForURL(url, host) of the generated script.
FindProxyForURL(settings, h) ==
    IF \E i \in 1..Len(settings.sites) :
           \/ dnsDomainIs(h, settings.sites[i])
           \/ endsWith(h, <<".">> \o settings.sites[i])
    THEN [kind |-> "PROXY", host |-> settings.host, port |-> settings.port]
    ELSE Direct

\* The route of a request under the settings: the script decides when one
\* is installed, otherwise the extension proxies nothing.
RouteOf(settings, h) ==
    IF settings.mode = "pac_script" THEN FindProxyForURL(settings, h) ELSE Direct

IdleRun ==
    [pc |-> "idle", isEnabled |-> "undefined", geoSites |-> <<>>,
     proxyConfig |-> UndefinedStr, sites |-> <<>>]

\* updateProxy() is called: it runs to its first await, the read of
\* isEnabled, geoSites and proxyConfig.
StartRun(loc) ==
    [pc |-> "awaitLocal", isEnabled |-> loc.isEnabled,
     geoSites |-> loc.geoSites, proxyConfig |-> loc.proxyConfig,
     sites |-> <<>>]

FreeRun(r) ==
    /\ run[r].pc \in {"idle", "done"}
    /\ \A q \in Runs : q < r => run[q].pc \notin {"idle", "done"}

\* The policy compiler leaves the pipeline alone.
PolicyFrame ==
    UNCHANGED <<alarm, now, parserPolicy, defaultConfig, cycle, install, remote, listening, auth>>

\* The listener returns undefined: the challenge is left to the browser.
NoReply == [credentials |-> FALSE, username |-> <<>>, password |-> <<>>]

\* No challenge has been seen.
NoChallenge == [asked |-> FALSE, isProxy |-> FALSE, reply |-> NoReply]

\* A listener that answers every challenge.
onAuthRequiredAnyChallenge(isProxy, cached) ==
    IF ~cached.null /\ cached.user # <<>> /\ cached.pass # <<>>
    THEN [credentials |-> TRUE, username |-> cached.user, password |-> cached.pass]
    ELSE NoReply

\* The listener of chrome.webRequest.onAuthRequired, for details.isProxy
\* and the cached credential.
onAuthRequired(isProxy, cached) ==
    IF isProxy /\ ~cached.null /\ cached.user # <<>> /\ cached.pass # <<>>
    THEN [credentials |-> TRUE, username |-> cached.user, password |-> cached.pass]
    ELSE NoReply

\* A proxy or an end site asks for credentials: the listener answers in
\* one step, from cachedConfig alone.
AuthRequired ==
    /\ \E isProxy \in BOOLEAN :
           auth' = [asked |-> TRUE, isProxy |-> isProxy,
                    reply |-> onAuthRequired(isProxy, cachedConfig)]
    /\ UNCHANGED <<pipelineVars, sync, proxy, cachedConfig, events, listening,
                   run, refresh, popup, host, route>>

\* The event of a chrome.storage.sync call that changed sites.
NotifySync(old, new) ==
    events' = IF listening /\ old # new
              THEN Append(events, [area |-> "sync", keys |-> {"sites"},
                                   proxyConfig |-> UndefinedStr])
              ELSE events

\* The local read arrived: chrome.storage.sync.get(['sites']) is issued.
GotLocal(r) ==
    /\ run[r].pc = "awaitLocal"
    /\ run' = [run EXCEPT ![r].pc = "awaitSync", ![r].sites = sync.sites]
    /\ UNCHANGED <<local, sync, proxy, cachedConfig, events, refresh, popup, host, route>>
    /\ PolicyFrame

\* The sync read arrived: the settings are cleared or the script is set.
GotSync(r) ==
    /\ run[r].pc = "awaitSync"
    /\ proxy' = CompilePolicy(run[r].isEnabled, run[r].geoSites,
                              run[r].proxyConfig, run[r].sites, defaultConfig)
    /\ run' = [run EXCEPT ![r].pc = "done"]
    /\ UNCHANGED <<local, sync, cachedConfig, events, refresh, popup, host, route>>
    /\ PolicyFrame

\* refreshCachedConfig() resumes with the proxyConfig it read.
RefreshDone ==
    /\ refresh.pending
    /\ cachedConfig' = parseProxyConfig(OrElse(refresh.proxyConfig, defaultConfig))
    /\ refresh' = [refresh EXCEPT !.pending = FALSE]
    /\ UNCHANGED <<local, sync, proxy, events, run, popup, host, route>>
    /\ PolicyFrame

\* The listener calls updateProxy() for a change of sites (area sync) or
\* of isEnabled, geoSites or proxyConfig (area local).
CallsUpdateProxy(e) ==
    \/ e.area = "sync" /\ "sites" \in e.keys
    \/ e.area = "local" /\ e.keys \cap {"isEnabled", "geoSites", "proxyConfig"} # {}

\* A listener that starts an update cycle when geoSites changed.
DispatchRefetching ==
    /\ events # <<>>
    /\ events' = Tail(events)
    /\ cycle' = [cycle EXCEPT ![1] = IF "geoSites" \in Head(events).keys
                                     THEN StartCycle(local) ELSE @]
    /\ UNCHANGED <<local, alarm, now, parserPolicy, defaultConfig, install, remote,
                   sync, proxy, cachedConfig, listening, run, refresh, popup,
                   host, route, auth>>

\* chrome.storage.onChanged: the listener of the service worker runs for
\* the oldest event.
Dispatch ==
    /\ events # <<>>
    /\ LET e == Head(events)
       IN /\ cachedConfig' =
                 IF e.area = "local" /\ "proxyConfig" \in e.keys
                 THEN parseProxyConfig(OrElse(e.proxyConfig, defaultConfig))
                 ELSE cachedConfig
          /\ IF CallsUpdateProxy(e)
             THEN \E r \in Runs : /\ FreeRun(r)
                                  /\ run' = [run EXCEPT ![r] = StartRun(local)]
             ELSE run' = run
    /\ events' = Tail(events)
    /\ UNCHANGED <<local, sync, proxy, refresh, popup, host, route>>
    /\ PolicyFrame

(***************************************************************************)
(* The popup (App.jsx) and the writes of the pipeline the listener sees.   *)
(***************************************************************************)
\* The credential strings typed into the popup.
ConfigChoices == {<<"h">>, <<"h", ":", "1">>}
\* The domains added in the popup.
UserDomains == {DomCB}

ClosedPopup == [open |-> FALSE, isEnabled |-> FALSE, sites |-> <<>>]

\* The popup opens and loads its state from the storage.
PopupOpen ==
    /\ popup' = [open |-> TRUE, isEnabled |-> local.isEnabled = "true",
                 sites |-> sync.sites]
    /\ UNCHANGED <<local, sync, proxy, cachedConfig, events, run, refresh, host, route>>
    /\ PolicyFrame

toggleProxy ==
    /\ popup.open
    /\ Len(events) < MaxEvents
    /\ popup' = [popup EXCEPT !.isEnabled = ~popup.isEnabled]
    /\ local' = [local EXCEPT !.isEnabled =
                                  IF popup.isEnabled THEN "false" ELSE "true"]
    /\ NotifyLocal(local, local')
    /\ UNCHANGED <<sync, proxy, cachedConfig, run, refresh, host, route>>
    /\ PolicyFrame

handleProxyChange ==
    /\ popup.open
    /\ Len(events) < MaxEvents
    /\ \E newValue \in ConfigChoices :
           local' = [local EXCEPT !.proxyConfig = newValue]
    /\ NotifyLocal(local, local')
    /\ UNCHANGED <<sync, proxy, cachedConfig, run, refresh, popup, host, route>>
    /\ PolicyFrame

addSite ==
    /\ popup.open
    /\ Len(events) < MaxEvents
    /\ \E domain \in UserDomains :
        /\ \A i \in 1..Len(popup.sites) : popup.sites[i] # domain
        /\ popup' = [popup EXCEPT !.sites = Append(popup.sites, domain)]
        /\ sync' = [sync EXCEPT !.sites = Append(popup.sites, domain)]
    /\ NotifySync(sync, sync')
    /\ UNCHANGED <<local, proxy, cachedConfig, run, refresh, host, route>>
    /\ PolicyFrame

\* sites.filter(site => site !== siteToRemove)
RECURSIVE Without(_, _)
Without(sites, siteToRemove) ==
    IF sites = <<>> THEN <<>>
    ELSE (IF Head(sites) # siteToRemove THEN <<Head(sites)>> ELSE <<>>)
             \o Without(Tail(sites), siteToRemove)

removeSite ==
    /\ popup.open
    /\ Len(events) < MaxEvents
    /\ \E i \in 1..Len(popup.sites) :
        /\ popup' = [popup EXCEPT !.sites = Without(popup.sites, popup.sites[i])]
        /\ sync' = [sync EXCEPT !.sites = Without(popup.sites, popup.sites[i])]
    /\ NotifySync(sync, sync')
    /\ UNCHANGED <<local, proxy, cachedConfig, run, refresh, host, route>>
    /\ PolicyFrame

\* The files whose domains reach the storage while the popup is used.
StoredContents == {"bundle", "v2"}

\* The write of parseAndSaveDomains, as the pipeline issues it for a
\* packaged or downloaded file.
GeoSitesStored ==
    /\ Len(events) < MaxEvents
    /\ \E k \in StoredContents :
        LET r == parseAndSaveDomains(local, k, SizeOf(k), parserPolicy)
        IN r.saved /\ local' = r.local
    /\ NotifyLocal(local, local')
    /\ UNCHANGED <<sync, proxy, cachedConfig, run, refresh, popup, host, route>>
    /\ PolicyFrame

\* A request for host: the browser asks the installed policy.
Request ==
    /\ route' = RouteOf(proxy, host)
    /\ UNCHANGED <<local, sync, proxy, cachedConfig, events, run, refresh, popup, host>>
    /\ PolicyFrame

\* The policy compiler before the worker has started.
PolicyOff ==
    /\ sync = [sites |-> <<>>]
    /\ proxy = Cleared
    /\ cachedConfig = NullConfig
    /\ events = <<>>
    /\ listening = FALSE
    /\ run = [r \in Runs |-> IdleRun]
    /\ refresh = [pending |-> FALSE, proxyConfig |-> UndefinedStr]
    /\ popup = ClosedPopup
    /\ host = <<>>
    /\ route = NoRoute
    /\ auth = NoChallenge

(***************************************************************************)
(* The ingestion pipeline: the install handler, the alarm and the update   *)
(* cycles.                                                                 *)
(***************************************************************************)
PipelineInit ==
    /\ remote = AnyRemote
    /\ local = EmptyLocal
    /\ alarm = FALSE
    /\ now = 0
    /\ parserPolicy \in {"abort", "skip"}
    /\ defaultConfig = UndefinedStr
    /\ cycle = [c \in Cycles |-> IdleCycle]
    /\ install = IdleInstall
    /\ PolicyOff

CycleStep(c) ==
    \/ GotEtag(c)
    \/ FetchResolved(c)
    \/ FetchRejected(c)
    \/ FetchTimeout(c)
    \/ ReadChunk(c)
    \/ ProgressSaved(c)
    \/ ReadDone(c)
    \/ ReadFailed(c)
    \/ DomainsSaved(c)
    \/ EtagSaved(c)
    \/ StampSaved(c)
    \/ ProgressCleared(c)
    \/ ErrorSaved(c)

InstallStep ==
    \/ Installed
    \/ ConfigRead
    \/ BundleFetched
    \/ BundleBuffered
    \/ BundleSaved
    \/ \E c \in Cycles : AlarmChecked(c)

\* One invocation at a time, any remote behaviour.
SequentialNext ==
    \/ Installed
    \/ ConfigRead
    \/ BundleFetched
    \/ BundleBuffered
    \/ BundleSaved
    \/ AlarmChecked(1)
    \/ AlarmFire(1)
    \/ CycleStep(1)

Spec == PipelineInit /\ [][SequentialNext]_vars

\* Overlapping invocations.  The behaviours start where an installation
\* left the worker: the packaged list is stored, the alarm exists, and the
\* install-time invocation has either failed on every mirror or stored
\* release v1.  The mirrors serve intact releases; an alarm may fire while
\* earlier invocations are still in flight.
InstalledLocal ==
    [EmptyLocal EXCEPT !.geoSites = Dedupe(DomainsIn("bundle")),
                       !.geoReady = TRUE, !.isEnabled = "false",
                       !.downloadProgress = ErrorProgress]

UpdatedLocal ==
    [InstalledLocal EXCEPT !.geoSites = Dedupe(DomainsIn("v1")),
                           !.geositeEtag = "v1", !.geositeLastUpdate = 1,
                           !.downloadProgress = NullProgress]

OverlapInit ==
    /\ remote = IntactRemote
    /\ \/ local = InstalledLocal /\ now = 0
       \/ local = UpdatedLocal /\ now = 1
    /\ alarm = TRUE
    /\ parserPolicy \in {"abort", "skip"}
    /\ defaultConfig = UndefinedStr
    /\ cycle = [c \in Cycles |-> [IdleCycle EXCEPT !.pc = IF c = 1 THEN "done" ELSE "idle",
                                                   !.outcome = IF c = 1 THEN (IF local = UpdatedLocal THEN "UPDATED" ELSE "FAILED") ELSE "none"]]
    /\ install = [IdleInstall EXCEPT !.pc = "done", !.reason = "install"]
    /\ PolicyOff

OverlapNext ==
    \/ \E c \in Cycles : AlarmFire(c)
    \/ \E c \in Cycles : CycleStep(c)

OverlapSpec == OverlapInit /\ [][OverlapNext]_vars


\* Liveness of one invocation.  The browser completes storage calls and
\* fires armed timers; nothing obliges a mirror to answer, to send the next
\* chunk or to close the stream, and nothing obliges the alarm or a new
\* installation to occur.
LivenessInit ==
    /\ remote = AnyRemote
    /\ local = InstalledLocal
    /\ now = 0
    /\ alarm = TRUE
    /\ parserPolicy \in {"abort", "skip"}
    /\ defaultConfig = UndefinedStr
    /\ cycle = [c \in Cycles |-> IdleCycle]
    /\ install = [IdleInstall EXCEPT !.pc = "done", !.reason = "install"]
    /\ PolicyOff

LivenessNext ==
    \/ AlarmFire(1)
    \/ CycleStep(1)

BrowserStep(c) ==
    \/ GotEtag(c)
    \/ FetchTimeout(c)
    \/ ProgressSaved(c)
    \/ DomainsSaved(c)
    \/ EtagSaved(c)
    \/ StampSaved(c)
    \/ ProgressCleared(c)
    \/ ErrorSaved(c)

LivenessSpec ==
    LivenessInit /\ [][LivenessNext]_vars /\ WF_vars(BrowserStep(1))

(***************************************************************************)
(* The policy compiler with the popup: the worker starts on a fresh        *)
(* profile (refreshCachedConfig() and updateProxy() are called by the      *)
(* script), the user edits the settings, domain lists are stored.          *)
(***************************************************************************)
DefaultConfigs == {UndefinedStr, <<"d", ":", "2">>}

WorkerStarted(loc) ==
    /\ cachedConfig = NullConfig
    /\ events = <<>>
    /\ refresh = [pending |-> TRUE, proxyConfig |-> loc.proxyConfig]
    /\ run = [r \in Runs |-> IF r = 1 THEN StartRun(loc) ELSE IdleRun]
    /\ auth = NoChallenge

PipelineOff ==
    /\ alarm = FALSE
    /\ now = 0
    /\ cycle = [c \in Cycles |-> IdleCycle]
    /\ install = IdleInstall
    /\ remote = AnyRemote

PolicyInit ==
    /\ PipelineOff
    /\ parserPolicy = "abort"
    /\ defaultConfig \in DefaultConfigs
    /\ local = EmptyLocal
    /\ sync = [sites |-> <<>>]
    /\ proxy = Cleared
    /\ listening = TRUE
    /\ WorkerStarted(local)
    /\ popup = ClosedPopup
    /\ host = <<>>
    /\ route = NoRoute

PolicyNext ==
    \/ PopupOpen
    \/ toggleProxy
    \/ handleProxyChange
    \/ addSite
    \/ removeSite
    \/ GeoSitesStored
    \/ Dispatch
    \/ RefreshDone
    \/ \E r \in Runs : GotLocal(r)
    \/ \E r \in Runs : GotSync(r)

PolicySpec == PolicyInit /\ [][PolicyNext]_vars

(***************************************************************************)
(* Host matching: the worker starts with proxying enabled and some stored  *)
(* domain lists, compiles the policy, and the browser asks it about a host.*)
(***************************************************************************)
HostAlphabet == {"a", "b", "c", "."}

WellFormedHost(h) ==
    /\ h[1] # "." /\ h[Len(h)] # "."
    /\ \A i \in 1..(Len(h) - 1) : ~(h[i] = "." /\ h[i + 1] = ".")

Hosts ==
    {h \in UNION {[1..n -> HostAlphabet] : n \in 1..MaxHostLen} : WellFormedHost(h)}

MatchInit ==
    /\ PipelineOff
    /\ parserPolicy = "abort"
    /\ defaultConfig = UndefinedStr
    /\ \E k \in GoodContents \cup {"none"} :
           local = [EmptyLocal EXCEPT !.geoSites = Dedupe(DomainsIn(k)),
                                      !.geoReady = k # "none",
                                      !.isEnabled = "true",
                                      !.proxyConfig = <<"h", ":", "1">>]
    /\ sync \in {[sites |-> <<>>], [sites |-> <<DomAB>>], [sites |-> <<DomCB>>]}
    /\ proxy = Cleared
    /\ listening = FALSE
    /\ WorkerStarted(local)
    /\ popup = ClosedPopup
    /\ host \in Hosts
    /\ route = NoRoute

MatchNext ==
    \/ RefreshDone
    \/ GotLocal(1)
    \/ GotSync(1)
    \/ Request

MatchSpec == MatchInit /\ [][MatchNext]_vars

(***************************************************************************)
(* Credentials: the worker starts with proxying enabled, the packaged      *)
(* domains stored and some credential string; it parses the string,        *)
(* compiles the policy and answers authentication challenges.              *)
(***************************************************************************)
\* Longest credential string.
MaxConfigLen == 7

\* A letter, a digit, the separator and a quote.
ConfigAlphabet == {"h", "1", ":", "\""}

ConfigStrings == UNION {[1..n -> ConfigAlphabet] : n \in 0..MaxConfigLen}

CredentialInit ==
    /\ PipelineOff
    /\ parserPolicy = "abort"
    /\ defaultConfig \in DefaultConfigs
    /\ \E str \in ConfigStrings \cup {UndefinedStr} :
           local = [EmptyLocal EXCEPT !.geoSites = <<DomAB>>,
                                      !.geoReady = TRUE,
                                      !.isEnabled = "true",
                                      !.proxyConfig = str]
    /\ sync = [sites |-> <<>>]
    /\ proxy = Cleared
    /\ listening = FALSE
    /\ WorkerStarted(local)
    /\ popup = ClosedPopup
    /\ host = <<>>
    /\ route = NoRoute

CredentialNext ==
    \/ RefreshDone
    \/ GotLocal(1)
    \/ GotSync(1)
    \/ AuthRequired

CredentialSpec == CredentialInit /\ [][CredentialNext]_vars

(***************************************************************************)
(* The pipeline with the listener: installation, the alarm and update      *)
(* cycles write the storage, and the onChanged listener of the worker is   *)
(* told of every change.  A write waits while MaxEvents events are queued. *)
(***************************************************************************)
ReentryInit ==
    /\ remote = OneFileRemote
    /\ local = EmptyLocal
    /\ alarm = FALSE
    /\ now = 0
    /\ parserPolicy = "abort"
    /\ defaultConfig = UndefinedStr
    /\ cycle = [c \in Cycles |-> IdleCycle]
    /\ install = IdleInstall
    /\ sync = [sites |-> <<>>]
    /\ proxy = Cleared
    /\ cachedConfig = NullConfig
    /\ events = <<>>
    /\ listening = TRUE
    /\ run = [r \in Runs |-> IdleRun]
    /\ refresh = [pending |-> FALSE, proxyConfig |-> UndefinedStr]
    /\ popup = ClosedPopup
    /\ host = <<>>
    /\ route = NoRoute
    /\ auth = NoChallenge

ReentryNext ==
    \/ /\ Len(events) < MaxEvents
       /\ SequentialNext
    \/ Dispatch
    \/ \E r \in Runs : GotLocal(r)
    \/ \E r \in Runs : GotSync(r)

ReentrySpec == ReentryInit /\ [][ReentryNext]_vars

(***************************************************************************)
(* Download progress: update cycles after installation, against mirrors    *)
(* that declare any Content-Length.                                        *)
(***************************************************************************)
ProgressInit ==
    /\ remote = OddRemote
    /\ local = InstalledLocal
    /\ now = 0
    /\ alarm = TRUE
    /\ parserPolicy = "abort"
    /\ defaultConfig = UndefinedStr
    /\ cycle = [c \in Cycles |-> IdleCycle]
    /\ install = [IdleInstall EXCEPT !.pc = "done", !.reason = "install"]
    /\ PolicyOff

ProgressNext ==
    \/ AlarmFire(1)
    \/ CycleStep(1)

ProgressSpec == ProgressInit /\ [][ProgressNext]_vars

(***************************************************************************)
(* Replacement of the stored set: update cycles after installation,        *)
(* against mirrors that serve a release or a well-formed file without      *)
(* entries of the target categories.                                       *)
(***************************************************************************)
ReplaceInit ==
    /\ remote = ForeignRemote
    /\ local = InstalledLocal
    /\ now = 0
    /\ alarm = TRUE
    /\ parserPolicy = "abort"
    /\ defaultConfig = UndefinedStr
    /\ cycle = [c \in Cycles |-> IdleCycle]
    /\ install = [IdleInstall EXCEPT !.pc = "done", !.reason = "install"]
    /\ PolicyOff

ReplaceNext ==
    \/ AlarmFire(1)
    \/ CycleStep(1)

ReplaceSpec == ReplaceInit /\ [][ReplaceNext]_vars

(***************************************************************************)
(* Installation with the listener and the popup: a new worker starts on a  *)
(* fresh profile or on the storage of an earlier version (proxying on or   *)
(* off), onInstalled fires, and the user may open the popup and toggle     *)
(* proxying while the packaged file is loading.                            *)
(***************************************************************************)
\* The storage an earlier version left, with proxying on or off.
EarlierLocal(isEnabled) ==
    [UpdatedLocal EXCEPT !.isEnabled = isEnabled,
                         !.proxyConfig = <<"h", ":", "1">>]

InstallInit ==
    /\ remote = OneFileRemote
    /\ now = 0
    /\ parserPolicy = "abort"
    /\ defaultConfig = UndefinedStr
    /\ cycle = [c \in Cycles |-> IdleCycle]
    /\ \/ /\ local = EmptyLocal
          /\ alarm = FALSE
          /\ install = IdleInstall
       \/ /\ local \in {EarlierLocal("true"), EarlierLocal("false")}
          /\ alarm = TRUE
          /\ install = [IdleInstall EXCEPT !.pc = "done"]
    /\ sync = [sites |-> <<>>]
    /\ proxy = CompilePolicy(local.isEnabled, local.geoSites, local.proxyConfig,
                             sync.sites, defaultConfig)
    /\ listening = TRUE
    /\ WorkerStarted(local)
    /\ popup = ClosedPopup
    /\ host = <<>>
    /\ route = NoRoute

\* The one onInstalled event of the new worker: the handler has not run in
\* it yet (reason "none").
InstalledOnce ==
    /\ install.reason = "none"
    /\ Installed

\* The install handler is inside loadBundledGeosite().
LoadingBundle ==
    install.pc \in {"awaitBundleFetch", "awaitArrayBuffer", "awaitBundleSave"}

\* The user toggles proxying while loadBundledGeosite() is running.
ToggleWhileLoading ==
    /\ LoadingBundle
    /\ toggleProxy

InstallNext ==
    \/ /\ Len(events) < MaxEvents
       /\ \/ InstalledOnce
          \/ ConfigRead
          \/ BundleFetched
          \/ BundleBuffered
          \/ BundleSaved
          \/ AlarmChecked(1)
          \/ CycleStep(1)
    \/ PopupOpen
    \/ ToggleWhileLoading
    \/ Dispatch
    \/ RefreshDone
    \/ \E r \in Runs : GotLocal(r)
    \/ \E r \in Runs : GotSync(r)

InstallSpec == InstallInit /\ [][InstallNext]_vars

(***************************************************************************)
(* Properties.                                                             *)
(***************************************************************************)
InFlight(c) == cycle[c].pc \notin {"idle", "done"}

\* The step with which invocation c returns.
Returns(c) == InFlight(c) /\ cycle'[c].pc = "done"

\* The keys of the GeoDomainSet / CacheMetadata pair and its timestamp.
CommitKeys == {"geoSites", "geositeEtag", "geositeLastUpdate"}

\* The domain set a response with validator etag decodes to is stored.
StoresDomainsOf(etag) ==
    /\ etag \in GoodContents
    /\ local.geoReady
    /\ local.geoSites = Dedupe(DomainsIn(etag))

\* C1.  In every reachable state the stored geositeEtag, when there is
\* one, is the ETag of a response whose decoded domain set is the stored
\* geoSites: a new ETag is never paired with a stale or absent domain set.
C1_EtagNamesStoredDomains ==
    local.geositeEtag # NoEtag => StoresDomainsOf(local.geositeEtag)

\* The download of invocation record cyc ended with a body that validation
\* rejects (below MinBufferSize) or whose decode failed.
RejectedBody(cyc) ==
    /\ cyc.response.status = 200
    /\ cyc.pc \in {"awaitEtag", "awaitStamp", "awaitClear", "awaitError"}
    /\ cyc.receivedBytes = SizeOf(cyc.response.content)
    /\ \/ cyc.receivedBytes < MinBufferSize
       \/ parseGeoSite(cyc.response.content, parserPolicy).threw

\* C2.  An update cycle whose body is empty or below 1024 bytes, or whose
\* decode fails, returns having written none of geoSites, geositeEtag and
\* geositeLastUpdate, and returns as a failure (the error is signalled).
C2_RejectedBodyWritesNothing ==
    [][\A c \in Cycles :
          (Returns(c) /\ RejectedBody(cycle[c]))
              => /\ cycle[c].wrote \cap CommitKeys = {}
                 /\ cycle'[c].outcome = "FAILED"]_vars

\* C3.  Invocations of checkAndUpdateGeosite that overlap do not interleave
\* their writes: once none is in flight, the stored geositeEtag and the
\* stored geoSites are the pair of one invocation.
C3_PairOfOneInvocation ==
    (\A c \in Cycles : ~InFlight(c))
        => (local.geositeEtag # NoEtag => StoresDomainsOf(local.geositeEtag))

\* C4.  An update cycle that a mirror answers with 304 returns without a
\* state change: it has written no key before the answer, whichever mirror
\* gave it, and the step that handles the answer leaves the storage
\* (geoSites, geositeEtag, geositeLastUpdate, downloadProgress) as it was.
C4_NotModifiedChangesNothing ==
    [][\A c \in Cycles :
          (Returns(c) /\ cycle'[c].outcome = "NOT_MODIFIED")
              => /\ cycle[c].wrote = {}
                 /\ local' = local
                 /\ now' = now]_vars

\* An invocation has returned NOT_MODIFIED while an error status of an
\* earlier cycle is still stored.
C4_Witness ==
    /\ cycle[1].outcome = "NOT_MODIFIED"
    /\ local.downloadProgress.status = "error"
    /\ local.geositeEtag # NoEtag

\* C5.  An update cycle that returns without having stored a domain set and
\* without a 304 answer returns with downloadProgress.status = 'error' and
\* has written none of geoSites, geositeEtag and geositeLastUpdate.
C5_FailureLeavesErrorStatus ==
    [][\A c \in Cycles :
          (/\ Returns(c)
           /\ cycle'[c].outcome # "NOT_MODIFIED"
           /\ "geoSites" \notin cycle[c].wrote)
              => /\ local'.downloadProgress.status = "error"
                 /\ cycle[c].wrote \cap CommitKeys = {}]_vars

\* C6.  The mirrors are attempted in list order, each after the one before
\* it failed, and the cycle enters its failure branch only when the attempt
\* at the last mirror has failed.
C6_FailsOnlyAfterLastMirror ==
    [][\A c \in Cycles :
          /\ (cycle'[c].pc = "awaitFetch" /\ cycle'[c].mirror # cycle[c].mirror)
                => /\ cycle[c].pc \in {"awaitGet", "awaitFetch"}
                   /\ cycle'[c].mirror = cycle[c].mirror + 1
          /\ (cycle[c].pc # "awaitError" /\ cycle'[c].pc = "awaitError")
                => /\ cycle[c].pc = "awaitFetch"
                   /\ cycle[c].mirror = NumMirrors]_vars

\* C7.  Every started update cycle eventually returns, given only that
\* timers fire and storage calls complete.
C7_CycleTerminates == InFlight(1) ~> ~InFlight(1)

\* The stored pair is the pair of a committed remote update.
CommittedPair ==
    local.geositeEtag # NoEtag /\ StoresDomainsOf(local.geositeEtag)

\* C8.  Once a remote update is committed, no step of the onInstalled
\* handler replaces the stored geoSites and leaves the remote geositeEtag
\* in place.
C8_InstallKeepsCommittedPair ==
    [][(CommittedPair /\ install' # install)
          => ~(/\ local'.geoSites # local.geoSites
               /\ local'.geositeEtag = local.geositeEtag)]_vars

\* The credential string has fewer than two parts separated by ':'.
Unparsable(str) == Falsy(str) \/ \A i \in 1..Len(str) : str[i] # ":"

\* What an invocation of updateProxy read that obliges it to clear.
MustClear(r) ==
    \/ run[r].isEnabled # "true"
    \/ run[r].geoSites \o run[r].sites = <<>>
    \/ Unparsable(OrElse(run[r].proxyConfig, defaultConfig))

\* C9.  An invocation of updateProxy that read isEnabled other than true, or
\* an empty merge of geoSites and sites, or a credential string that does not
\* parse, returns with the proxy settings cleared, under which every host
\* is routed DIRECT.
C9_ClearsWhenDisabledEmptyOrUnparsable ==
    [][\A r \in Runs :
          (run[r].pc = "awaitSync" /\ run'[r].pc = "done" /\ MustClear(r))
              => /\ proxy' = Cleared
                 /\ \A h \in {DomAB, DomB, DomCB} : RouteOf(proxy', h) = Direct]_vars

\* An invocation that read isEnabled = false together with stored domains
\* and a credential that parses has returned, and the settings are cleared.
C9_Witness ==
    \E r \in Runs :
        /\ run[r].pc = "done"
        /\ run[r].isEnabled = "false"
        /\ run[r].geoSites \o run[r].sites # <<>>
        /\ ~Unparsable(OrElse(run[r].proxyConfig, defaultConfig))
        /\ proxy = Cleared

\* host is d, or ends with '.' followed by d.
DotSuffixMatch(h, d) ==
    \/ h = d
    \/ /\ Len(h) > Len(d)
       /\ SubSeq(h, Len(h) - Len(d) + 1, Len(h)) = d
       /\ h[Len(h) - Len(d)] = "."

\* C10.  Under an installed PAC script a request is routed to PROXY exactly
\* when its host equals a listed domain or ends with '.' followed by one,
\* for the domains of geoSites and of sites alike.
C10_ProxyIffDotSuffixMatch ==
    [][(route' # route /\ proxy.mode = "pac_script")
          => (route'.kind = "PROXY"
                <=> \E i \in 1..Len(proxy.sites) :
                        DotSuffixMatch(host, proxy.sites[i]))]_vars

\* The text of the string literal the script returns for a match, with the
\* quotes that delimit it.
ReturnLiteral(settings) ==
    <<"\"", "P", "R", "O", "X", "Y", " ">> \o settings.host \o <<":">>
        \o settings.port \o <<"\"">>

\* C11.  Whatever the credential string, the host embedded in an installed
\* PAC script consists of letters, digits, '.' and '-', the port of digits,
\* and the literal "PROXY host:port" has no quote but the two that delimit
\* it.
C11_EmbeddedHostAndPortAreSafe ==
    proxy.mode = "pac_script" =>
        /\ \A i \in 1..Len(proxy.host) :
               proxy.host[i] \in Letters \cup Digits \cup {".", "-"}
        /\ \A i \in 1..Len(proxy.port) : proxy.port[i] \in Digits
        /\ \A i \in 2..(Len(ReturnLiteral(proxy)) - 1) :
               ReturnLiteral(proxy)[i] # "\""

\* A script is installed for a credential string with a quote in its host
\* field.
C11_Witness ==
    /\ proxy.mode = "pac_script"
    /\ run[1].pc = "done"
    /\ ~Unparsable(run[1].proxyConfig)
    /\ \E i \in 1..Len(run[1].proxyConfig) :
           /\ run[1].proxyConfig[i] = "\""
           /\ \A j \in 1..i : run[1].proxyConfig[j] # ":"

\* The positions of ':' in str, and the position of the k-th of them
\* (0 for k = 0, one past the end when str has fewer).
Colons(str) == {i \in 1..Len(str) : str[i] = ":"}
ColonAt(str, k) ==
    IF k = 0 THEN 0
    ELSE IF k > Cardinality(Colons(str)) THEN Len(str) + 1
    ELSE CHOOSE i \in Colons(str) : Cardinality({j \in Colons(str) : j <= i}) = k

\* Part k (from 0) of str split on ':', the empty string when there is none.
Field(str, k) ==
    IF k > Cardinality(Colons(str)) THEN <<>>
    ELSE SubSeq(str, ColonAt(str, k) + 1, ColonAt(str, k + 1) - 1)

\* The credential string in force: the stored one, else the default.
CredentialString == OrElse(local.proxyConfig, defaultConfig)

\* C12.  The parsed credential is absent exactly when the credential string
\* is absent, empty or has fewer than two parts separated by ':'; otherwise
\* host, port, user and pass are its parts 0, 1, 2 and 3, user and pass
\* empty when their part is missing.  With an absent credential updateProxy
\* leaves no proxy policy.
C12_ParsedFieldsAreTheParts ==
    /\ ~refresh.pending =>
          IF Falsy(CredentialString) \/ Colons(CredentialString) = {}
          THEN cachedConfig.null
          ELSE /\ ~cachedConfig.null
               /\ cachedConfig.host = Field(CredentialString, 0)
               /\ cachedConfig.port = Field(CredentialString, 1)
               /\ cachedConfig.user = Field(CredentialString, 2)
               /\ cachedConfig.pass = Field(CredentialString, 3)
    /\ (run[1].pc = "done" /\ ~refresh.pending /\ cachedConfig.null)
          => proxy = Cleared

\* A credential string of at least four parts has been parsed, with a user
\* and a password.
C12_Witness ==
    /\ ~refresh.pending
    /\ Cardinality(Colons(CredentialString)) >= 3
    /\ cachedConfig.user # <<>>
    /\ cachedConfig.pass # <<>>
    /\ run[1].pc = "done"

\* C13.  The reply to an authentication challenge carries credentials
\* exactly when the challenge comes from a proxy and the cached credential
\* has a non-empty user and a non-empty pass, and then they are the cached
\* ones; otherwise there is no reply.  Answering changes nothing but the
\* reply: no storage call is issued and no handler is started.
C13_RepliesOnlyToProxyFromCache ==
    [][auth' # auth =>
          /\ auth'.reply.credentials
                <=> /\ auth'.isProxy
                    /\ ~cachedConfig.null
                    /\ Len(cachedConfig.user) > 0
                    /\ Len(cachedConfig.pass) > 0
          /\ IF auth'.reply.credentials
             THEN /\ auth'.reply.username = cachedConfig.user
                  /\ auth'.reply.password = cachedConfig.pass
             ELSE auth'.reply = NoReply
          /\ UNCHANGED <<local, sync, proxy, cachedConfig, events, run, refresh,
                         cycle, install, alarm>>]_vars

\* A proxy challenge was answered with the cached user and password, and
\* an end-site challenge can be told from it.
C13_Witness ==
    /\ auth.asked
    /\ auth.isProxy
    /\ auth.reply.credentials
    /\ auth.reply.username = cachedConfig.user

\* No handler of the policy compiler is pending.
PolicyQuiet ==
    /\ ~refresh.pending
    /\ events = <<>>
    /\ \A r \in Runs : run[r].pc \in {"idle", "done"}

\* C14.  Once the startup refresh has resumed, every change notification
\* has been delivered and no handler is pending, cachedConfig is the parse
\* of the stored proxyConfig, or of the default when none is stored.
C14_CacheIsParseOfStoredConfig ==
    PolicyQuiet => cachedConfig = parseProxyConfig(CredentialString)

\* Invocation c of checkAndUpdateGeosite starts in this step.
Starts(c) == cycle[c].pc \in {"idle", "done"} /\ cycle'[c].pc = "awaitGet"

\* C15.  The step in which the onChanged listener handles an event starts
\* no update cycle and no step of the install handler, and starts at most
\* one invocation of updateProxy; an update cycle starts only in a step of
\* the install handler or of the alarm, which handles no event.
C15_ListenerStartsNoCycle ==
    [][/\ Len(events') < Len(events)
          => /\ cycle' = cycle
             /\ install' = install
             /\ Cardinality({r \in Runs : run'[r] # run[r]}) <= 1
       /\ (\E c \in Cycles : Starts(c))
          => /\ Len(events') >= Len(events)
             /\ run' = run
             /\ \/ install.pc # "done" /\ install'.pc = "done"
                \/ alarm /\ install' = install /\ local' = local]_vars

\* An update cycle committed a downloaded set, the listener handled the
\* change of geoSites by an updateProxy that read the new set, and no cycle
\* is in flight.
C15_Witness ==
    /\ cycle[1].outcome = "UPDATED"
    /\ cycle[1].pc = "done"
    /\ events = <<>>
    /\ \E r \in Runs :
           /\ run[r].pc = "done"
           /\ run[r].geoSites = local.geoSites
           /\ local.geositeEtag # NoEtag

\* C16.  A step of the install handler starts an update cycle only after
\* loadBundledGeosite() has returned; the load returns to the handler
\* whether it stored the packaged set or not; and the handler ends only in
\* a step that leaves the alarm set and starts the update cycle.
C16_BundleFirstAndNotFatal ==
    [][/\ ((\E c \in Cycles : Starts(c)) /\ install' # install)
            => install.pc = "awaitAlarmGet"
       /\ (LoadingBundle /\ install'.pc # install.pc)
            => install'.pc \in {"awaitArrayBuffer", "awaitBundleSave",
                                "awaitAlarmGet"}
       /\ (install.pc # "done" /\ install'.pc = "done")
            => /\ alarm'
               /\ \E c \in Cycles : Starts(c)]_vars

\* The packaged set could not be loaded on a fresh install, and the handler
\* has set the alarm and started the update cycle.
C16_Witness ==
    /\ install.pc = "done"
    /\ install.reason = "install"
    /\ ~local.geoReady
    /\ alarm
    /\ cycle[1].pc = "awaitGet"

\* The domains of seq, each once.
Distinct(seq) == {seq[i] : i \in 1..Len(seq)}

\* C17.  An update cycle that returns after it downloaded a body and stored
\* the decoded set leaves geoSites the decoded domains of that body without
\* repetition, geositeEtag the ETag of that response, geositeLastUpdate the
\* time of the commit and downloadProgress cleared.
C17_CommitHasFourEffects ==
    [][\A c \in Cycles :
          (Returns(c) /\ "geoSites" \in cycle[c].wrote)
              => /\ cycle'[c].outcome = "UPDATED"
                 /\ Distinct(local'.geoSites)
                        = Distinct(DomainsIn(cycle[c].response.content))
                 /\ Cardinality(Distinct(local'.geoSites)) = Len(local'.geoSites)
                 /\ local'.geositeEtag = cycle[c].response.etag
                 /\ local'.geositeLastUpdate = now'
                 /\ local'.downloadProgress = NullProgress]_vars

\* C18.  Once every change notification has been delivered and every
\* invocation of updateProxy has returned, the proxy settings are the ones
\* updateProxy compiles from the stored isEnabled, geoSites, proxyConfig and
\* sites.
C18_SettingsFollowStoredState ==
    PolicyQuiet
        => proxy = CompilePolicy(local.isEnabled, local.geoSites,
                                 local.proxyConfig, sync.sites, defaultConfig)

\* C19.  Every downloadProgress record written with status 'downloading'
\* has an integer percent from 0 to 100, whatever Content-Length the
\* response declares and however the body is cut into chunks, and within
\* one cycle the percent of a chunk is not below that of the chunk before.
C19_PercentInRangeAndMonotone ==
    [][\A c \in Cycles :
          (cycle[c].pc = "awaitRead" /\ cycle'[c].pc = "awaitProgress")
              => /\ local'.downloadProgress.status = "downloading"
                 /\ local'.downloadProgress.percent \in 0..100
                 /\ (cycle[c].receivedBytes > 0
                     /\ local.downloadProgress.status = "downloading")
                        => local'.downloadProgress.percent
                               >= local.downloadProgress.percent]_vars

\* C20.  Whenever no invocation of checkAndUpdateGeosite is in flight, the
\* stored downloadProgress does not have status 'downloading'.
C20_NoProgressWithoutCycle ==
    (\A c \in Cycles : ~InFlight(c))
        => local.downloadProgress.status # "downloading"

\* C21.  Once geoSites holds a domain, no step of a bundled load or of an
\* update cycle leaves it empty.
C21_GeoSitesStayNonEmpty ==
    [][Len(local.geoSites) > 0 => Len(local'.geoSites) > 0]_vars

\* The install handler of this worker has run to its end.
HandlerFinished ==
    /\ install.pc = "done"
    /\ install.reason # "none"

\* C22.  When the install handler has finished and no recompilation is
\* pending or running, isEnabled is false and the proxy settings are
\* cleared, whatever was stored before and whatever was toggled during
\* the load of the packaged file.
C22_InstallLeavesProxyingOff ==
    (HandlerFinished /\ PolicyQuiet)
        => (local.isEnabled = "false" /\ proxy = Cleared)

====
